---- MODULE Spec2Model ----
(***************************************************************************)
(* Model of the task-manager API (src/main.py, src/models.py).             *)
(*                                                                         *)
(* The state is the module-level dict fake_db and counter next_id of       *)
(* main.py, the wall clock read by datetime.now(), whether the application *)
(* is between the startup and the shutdown half of lifespan, and the last  *)
(* request served together with its response.  Every handler of main.py is *)
(* one action; its body is validated against the schema of models.py       *)
(* before the handler body runs, as the framework does.                    *)
(***************************************************************************)
EXTENDS Integers, Sequences, FiniteSets

(* ------------------------------ bounds --------------------------------- *)

\* create_task is not offered once next_id has passed MaxId
MaxId == 2

\* the wall clock reads 0..MaxClock
MaxClock == 1

\* requests in flight at once
MaxInFlight == 2

(* ------------------------- program constants --------------------------- *)

\* next_id = 1
FirstId == 1

\* Field(..., min_length=1, max_length=100) of title
TitleMinLength == 1

TitleMaxLength == 100

(* --------------------------- JSON values ------------------------------- *)

\* A JSON value: null, a text or a boolean.  A text is a run of len copies
\* of the character ch; the schema reads nothing of a text but its length.
Null == [t |-> "null"]

Str(c, n) == [t |-> "str", ch |-> c, len |-> n]

Bool(b) == [t |-> "bool", v |-> b]

\* a JSON number: the integer
Num(n) == n

Fields == {"title", "description", "completed"}

\* A request body is a JSON object: the function from the keys it carries to
\* their values.  A key outside its DOMAIN is a field the body omits.
\* Per field, the values a body draws from: those TaskPatch accepts (null
\* among them, which TaskCreate and TaskPut reject for title and completed),
\* and in the Bad sets one value per way of violating every schema.  Values
\* that validation would convert to the declared type are not drawn.
TitleInputs == { Null, Str("a", 1), Str("b", TitleMaxLength) }

BadTitleInputs == { Bool(TRUE), Str("a", 0), Str("b", TitleMaxLength + 1) }

DescriptionInputs == { Null, Str("d", 1), Str("d", 1001) }

BadDescriptionInputs == { Bool(FALSE) }

CompletedInputs == { Null, Bool(TRUE), Bool(FALSE) }

BadCompletedInputs == { Str("x", 1) }

InputsOf(f) ==
    IF f = "title" THEN TitleInputs
    ELSE IF f = "description" THEN DescriptionInputs
    ELSE CompletedInputs

BadInputsOf(f) ==
    IF f = "title" THEN BadTitleInputs
    ELSE IF f = "description" THEN BadDescriptionInputs
    ELSE BadCompletedInputs

AnyInput == UNION { InputsOf(f) \cup BadInputsOf(f) : f \in Fields }

\* every body over every subset of the fields
GoodBodies ==
    UNION { { b \in [S -> AnyInput] : \A f \in S : b[f] \in InputsOf(f) } : S \in SUBSET Fields }

\* a full body with one field replaced by a value of the wrong shape
BadBodies ==
    UNION { { [f \in Fields |-> IF f = g THEN v
                                ELSE IF f = "title" THEN Str("a", 1)
                                ELSE IF f = "description" THEN Str("d", 1)
                                ELSE Bool(TRUE)] : v \in BadInputsOf(g) } : g \in Fields }

\* a body with a key no request model declares: the id of another task
ExtraBodies == { [title |-> Str("a", 1), id |-> Num(FirstId + 1)] }

Bodies == GoodBodies \cup BadBodies \cup ExtraBodies

\* a few bodies: a title alone, the empty body, a title that is too long,
\* a title with the id of another task
FewBodies ==
    { [title |-> Str("a", 1)],
      [f \in {} |-> Null],
      [title |-> Str("b", TitleMaxLength + 1)] } \cup ExtraBodies

\* ids a request can name: every id create_task can assign, and one more
Ids == FirstId .. (MaxId + 1)

\* the first id, and one more
FirstIds == { FirstId, FirstId + 1 }

(* --------------------- schema validation (models.py) ------------------- *)

Err(f, kind) == [loc |-> f, type |-> kind]

\* variant: max_length left out
TitleErrorsNoMaxLength(b, optional) ==
    IF "title" \notin DOMAIN b
      THEN IF optional THEN {} ELSE {Err("title", "missing")}
    ELSE IF b["title"].t = "null"
      THEN IF optional THEN {} ELSE {Err("title", "string_type")}
    ELSE IF b["title"].t # "str" THEN {Err("title", "string_type")}
    ELSE IF b["title"].len < TitleMinLength THEN {Err("title", "string_too_short")}
    ELSE {}

\* title: str = Field(..., min_length=1, max_length=100); with optional,
\* title: Optional[str] = Field(None, min_length=1, max_length=100)
TitleErrors(b, optional) ==
    IF "title" \notin DOMAIN b
      THEN IF optional THEN {} ELSE {Err("title", "missing")}
    ELSE IF b["title"].t = "null"
      THEN IF optional THEN {} ELSE {Err("title", "string_type")}
    ELSE IF b["title"].t # "str" THEN {Err("title", "string_type")}
    ELSE IF b["title"].len < TitleMinLength THEN {Err("title", "string_too_short")}
    ELSE IF b["title"].len > TitleMaxLength THEN {Err("title", "string_too_long")}
    ELSE {}

\* description: Optional[str] = None
DescriptionErrors(b) ==
    IF "description" \notin DOMAIN b THEN {}
    ELSE IF b["description"].t \in {"null", "str"} THEN {}
    ELSE {Err("description", "string_type")}

\* completed: bool = False; with optional, completed: Optional[bool] = None
CompletedErrors(b, optional) ==
    IF "completed" \notin DOMAIN b THEN {}
    ELSE IF b["completed"].t = "null"
      THEN IF optional THEN {} ELSE {Err("completed", "bool_type")}
    ELSE IF b["completed"].t # "bool" THEN {Err("completed", "bool_parsing")}
    ELSE {}

TaskBaseErrors(b) ==
    TitleErrors(b, FALSE) \cup DescriptionErrors(b) \cup CompletedErrors(b, FALSE)

TaskCreateErrors(b) == TaskBaseErrors(b)

TaskPutErrors(b) ==
    TitleErrors(b, FALSE) \cup DescriptionErrors(b) \cup CompletedErrors(b, FALSE)

TaskPatchErrors(b) ==
    TitleErrors(b, TRUE) \cup DescriptionErrors(b) \cup CompletedErrors(b, TRUE)

\* variant: completed defaults to true
TaskBaseCompletedByDefault(b) ==
    [ title       |-> b["title"],
      description |-> IF "description" \in DOMAIN b THEN b["description"] ELSE Null,
      completed   |-> IF "completed" \in DOMAIN b THEN b["completed"] ELSE Bool(TRUE) ]

\* The validated model of a body: the fields it carries, the defaults for
\* the ones it omits.
TaskBase(b) ==
    [ title       |-> b["title"],
      description |-> IF "description" \in DOMAIN b THEN b["description"] ELSE Null,
      completed   |-> IF "completed" \in DOMAIN b THEN b["completed"] ELSE Bool(FALSE) ]

\* variant: completed not taken from the body
TaskCreateDropsCompleted(b) == [TaskBase(b) EXCEPT !.completed = Bool(FALSE)]

TaskCreate(b) == TaskBase(b)

\* variant: description not taken from the body
TaskPutDropsDescription(b) ==
    [ title       |-> b["title"],
      description |-> Null,
      completed   |-> IF "completed" \in DOMAIN b THEN b["completed"] ELSE Bool(FALSE) ]

TaskPut(b) ==
    [ title       |-> b["title"],
      description |-> IF "description" \in DOMAIN b THEN b["description"] ELSE Null,
      completed   |-> IF "completed" \in DOMAIN b THEN b["completed"] ELSE Bool(FALSE) ]

\* variant: model_dump() without exclude_unset
model_dump_all(b) == [f \in Fields |-> IF f \in DOMAIN b THEN b[f] ELSE Null]

\* variant: model_dump(exclude_none=True), the fields set to null left out
model_dump_exclude_none(b) ==
    [f \in { g \in (DOMAIN b) \cap Fields : b[g] # Null } |-> b[f]]

\* variant: the keys the model does not declare are kept
model_dump_extra_kept(b) == b

\* task_update.model_dump(exclude_unset=True): the fields the body set
model_dump_exclude_unset(b) == [f \in (DOMAIN b) \cap Fields |-> b[f]]

\* variant: a completed that the update leaves out is negated
model_copy_toggles(task, update) ==
    [f \in DOMAIN task |->
        IF f \in DOMAIN update THEN update[f]
        ELSE IF f = "completed" /\ task[f] # Null THEN Bool(~task[f].v)
        ELSE task[f]]

\* existing_task.model_copy(update=update_data): no validation
model_copy(task, update) ==
    [f \in DOMAIN task |-> IF f \in DOMAIN update THEN update[f] ELSE task[f]]

\* variant: created_at stamped anew
TaskInDBRestamped(id, created_at, updated_at, title, description, completed) ==
    [ id          |-> id,
      title       |-> title,
      description |-> description,
      completed   |-> completed,
      created_at  |-> updated_at,
      updated_at  |-> updated_at ]

\* TaskInDB(id=..., created_at=..., ...): the stored record.  Its fields are
\* given values TaskCreate or TaskPut has validated against the same
\* constraints, so the construction does not fail.
TaskInDB(id, created_at, updated_at, title, description, completed) ==
    [ id          |-> id,
      title       |-> title,
      description |-> description,
      completed   |-> completed,
      created_at  |-> created_at,
      updated_at  |-> updated_at ]

(* ------------------------------- state --------------------------------- *)

VARIABLES
    fake_db,    \* the dict: key -> task
    db_order,   \* the dict's keys in insertion order
    next_id,    \* the id counter
    clock,      \* what datetime.now() returns
    app_up,     \* between lifespan's startup and its shutdown
    req,        \* history: the last request served, [op, id]
    written,    \* history: the body of that request if it wrote to the store
    resp,       \* history: its response
    issued,     \* history: the ids successful creates returned, in order
    deleted,    \* history: the ids a DELETE answered with 204
    scenario,   \* history: how far the requests served follow Scenario
    repeated,   \* history: the last request is a successful PUT or PATCH and
                \* the request before it was the same, and successful
    coros,      \* the handler coroutines of the requests in flight
    running,    \* the coroutine the event loop is running, 0 for none
    discarded,  \* history: the ids creates returned before the last shutdown
    tests_next_id   \* the global next_id of the module test_tasks

vars == <<fake_db, db_order, next_id, clock, app_up, req, written, resp, issued, deleted, scenario, repeated, coros, running, discarded, tests_next_id>>

\* the last request served and what followed from it
last == <<req, written, resp, scenario, repeated>>

\* the event loop
loop == <<coros, running>>

NoBody == [f \in {} |-> Null]

EmptyDb == [k \in {} |-> Null]

Request(op, id) == [op |-> op, id |-> id]

\* body: the tasks the response carries, none, one or (GET /tasks) a list
Response(status, detail, body) == [status |-> status, detail |-> detail, body |-> body]

\* variant: the framework's default detail
NotFoundDefaultDetail == Response(404, "Not Found", <<>>)

\* HTTPException(status_code=404, detail="Task not found")
NotFound == Response(404, "Task not found", <<>>)

\* the framework's answer to a body that fails validation; its detail, the
\* list of the violations, is not modelled
Unprocessable == Response(422, "validation", <<>>)

\* list(fake_db.values())
Values(db, order) == [i \in 1 .. Len(order) |-> db[order[i]]]

\* variant: every entry of the dict is overwritten
SetItemAll(db, k, v) == [x \in DOMAIN db \cup {k} |-> v]

\* fake_db[k] = v
SetItem(db, k, v) == [x \in DOMAIN db \cup {k} |-> IF x = k THEN v ELSE db[x]]

\* variant: a key is listed again each time it is stored
SetItemOrderAppends(db, order, k) == Append(order, k)

\* a key stored anew goes last, a key stored again keeps its place
SetItemOrder(db, order, k) == IF k \in DOMAIN db THEN order ELSE Append(order, k)

\* variant: the entry is not erased
DelItemKeeps(db, k) == db

\* del fake_db[k]
DelItem(db, k) == [x \in DOMAIN db \ {k} |-> db[x]]

DelItemOrder(order, k) == SelectSeq(order, LAMBDA x : x # k)

\* variant: the counter is advanced by two
IncrementByTwo(n) == n + 2

\* variant: the counter is not advanced
IncrementForgotten(n) == n

\* next_id += 1
Increment(n) == n + 1

\* The scenario of the specification: a create, a PATCH, a DELETE and a GET
\* of the first id, served in this order from initialisation on with no
\* other request between them.
Scenario ==
    << [op |-> "POST",   id |-> 0,       body |-> [title |-> Str("a", 1)]],
       [op |-> "PATCH",  id |-> FirstId, body |-> [completed |-> Bool(TRUE)]],
       [op |-> "DELETE", id |-> FirstId, body |-> NoBody],
       [op |-> "GET",    id |-> FirstId, body |-> NoBody] >>

Off == 0 - 1

\* scenario counts the requests of Scenario served so far; it is Off once
\* the requests served are not a prefix of Scenario.
Follows(op, id, body) ==
    IF scenario \in 0 .. (Len(Scenario) - 1)
         /\ Scenario[scenario + 1] = [op |-> op, id |-> id, body |-> body]
      THEN scenario + 1
      ELSE Off

\* the request served last was this one, and it wrote to the store
Again(op, id, body) ==
    req = Request(op, id) /\ resp.status = 200 /\ written = body

\* from main import app, fake_db, next_id: the test module's next_id is a
\* name of its own, bound at the import to the value main.next_id has then,
\* and its fake_db is the dict of main
ImportedNextId == FirstId

\* no request in this slot
Idle == [op |-> "idle"]

Init ==
    /\ fake_db = EmptyDb
    /\ db_order = <<>>
    /\ next_id = FirstId
    /\ clock = 0
    /\ app_up = FALSE
    /\ req = Request("none", 0)
    /\ written = NoBody
    /\ resp = Response(0, "", <<>>)
    /\ issued = <<>>
    /\ deleted = {}
    /\ scenario = 0
    /\ repeated = FALSE
    /\ coros = [c \in 1 .. MaxInFlight |-> Idle]
    /\ running = 0
    /\ discarded = {}
    /\ tests_next_id = ImportedNextId

(* ------------------------------ actions -------------------------------- *)

\* variant: the counter is set to 1 again
lifespan_next_id_reset(n) == FirstId

\* global next_id in lifespan, with no assignment: the counter is kept
lifespan_next_id(n) == n

\* lifespan, up to the yield
Startup ==
    /\ ~app_up
    /\ app_up' = TRUE
    /\ UNCHANGED <<fake_db, db_order, next_id, clock, req, written, resp, issued, deleted, scenario, repeated>>
    /\ UNCHANGED <<loop, discarded, tests_next_id>>

\* lifespan, after the yield: fake_db.clear().  The history of the last
\* request ends with the serving.
Shutdown ==
    /\ app_up
    /\ app_up' = FALSE
    /\ fake_db' = EmptyDb
    /\ db_order' = <<>>
    /\ req' = Request("none", 0)
    /\ written' = NoBody
    /\ resp' = Response(0, "", <<>>)
    /\ scenario' = Off
    /\ repeated' = FALSE
    /\ next_id' = lifespan_next_id(next_id)
    /\ discarded' = { issued[i] : i \in 1 .. Len(issued) }
    /\ UNCHANGED <<clock, issued, deleted>>
    /\ UNCHANGED <<loop, tests_next_id>>

\* time passes
Tick ==
    /\ clock < MaxClock
    /\ clock' = clock + 1
    /\ UNCHANGED <<fake_db, db_order, next_id, app_up, req, written, resp, issued, deleted, scenario, repeated>>
    /\ UNCHANGED <<loop, discarded, tests_next_id>>

\* the wall clock is set back (datetime.now() is naive local time)
ClockSetBack ==
    /\ clock > 0
    /\ clock' = clock - 1
    /\ UNCHANGED <<fake_db, db_order, next_id, app_up, req, written, resp, issued, deleted, scenario, repeated>>
    /\ UNCHANGED <<loop, discarded, tests_next_id>>

root ==
    /\ app_up
    /\ req' = Request("GET /", 0)
    /\ scenario' = Follows("GET /", 0, NoBody)
    /\ repeated' = FALSE
    /\ written' = NoBody
    /\ resp' = Response(200, "Welcome to the Task Management API! Check /docs for API documentation.", <<>>)
    /\ UNCHANGED <<fake_db, db_order, next_id, clock, app_up, issued, deleted>>
    /\ UNCHANGED <<loop, discarded, tests_next_id>>

get_all_tasks ==
    /\ app_up
    /\ req' = Request("GET /tasks", 0)
    /\ scenario' = Follows("GET /tasks", 0, NoBody)
    /\ repeated' = FALSE
    /\ written' = NoBody
    /\ resp' = Response(200, "", Values(fake_db, db_order))
    /\ UNCHANGED <<fake_db, db_order, next_id, clock, app_up, issued, deleted>>
    /\ UNCHANGED <<loop, discarded, tests_next_id>>

get_task(task_id) ==
    /\ app_up
    /\ req' = Request("GET", task_id)
    /\ scenario' = Follows("GET", task_id, NoBody)
    /\ repeated' = FALSE
    /\ written' = NoBody
    /\ resp' = IF task_id \notin DOMAIN fake_db
                 THEN NotFound
                 ELSE Response(200, "", <<fake_db[task_id]>>)
    /\ UNCHANGED <<fake_db, db_order, next_id, clock, app_up, issued, deleted>>
    /\ UNCHANGED <<loop, discarded, tests_next_id>>

create_task(task) ==
    /\ app_up
    /\ req' = Request("POST", 0)
    /\ scenario' = Follows("POST", 0, task)
    /\ repeated' = FALSE
    /\ IF TaskCreateErrors(task) # {}
         THEN /\ resp' = Unprocessable
              /\ written' = NoBody
              /\ UNCHANGED <<fake_db, db_order, next_id, issued>>
         ELSE LET current_time == clock
                  new_task == TaskInDB(next_id, current_time, current_time,
                                       TaskCreate(task).title,
                                       TaskCreate(task).description,
                                       TaskCreate(task).completed)
              IN /\ fake_db' = SetItem(fake_db, new_task.id, new_task)
                 /\ db_order' = SetItemOrder(fake_db, db_order, new_task.id)
                 /\ next_id' = Increment(next_id)
                 /\ resp' = Response(201, "", <<new_task>>)
                 /\ written' = task
                 /\ issued' = Append(issued, new_task.id)
    /\ UNCHANGED <<clock, app_up, deleted>>
    /\ UNCHANGED <<loop, discarded, tests_next_id>>

update_task(task_id, task) ==
    /\ app_up
    /\ req' = Request("PUT", task_id)
    /\ scenario' = Follows("PUT", task_id, task)
    /\ IF TaskPutErrors(task) # {}
         THEN /\ resp' = Unprocessable
              /\ written' = NoBody
              /\ UNCHANGED <<fake_db, db_order>>
       ELSE IF task_id \notin DOMAIN fake_db
         THEN /\ resp' = NotFound
              /\ written' = NoBody
              /\ UNCHANGED <<fake_db, db_order>>
         ELSE LET existing_task == fake_db[task_id]
                  updated_task_obj == TaskInDB(task_id, existing_task.created_at, clock,
                                               TaskPut(task).title,
                                               TaskPut(task).description,
                                               TaskPut(task).completed)
              IN /\ fake_db' = SetItem(fake_db, task_id, updated_task_obj)
                 /\ db_order' = SetItemOrder(fake_db, db_order, task_id)
                 /\ resp' = Response(200, "", <<updated_task_obj>>)
                 /\ written' = task
    /\ repeated' = (Again("PUT", task_id, task) /\ resp'.status = 200)
    /\ UNCHANGED <<next_id, clock, app_up, issued, deleted>>
    /\ UNCHANGED <<loop, discarded, tests_next_id>>

partial_update_task(task_id, task_update) ==
    /\ app_up
    /\ req' = Request("PATCH", task_id)
    /\ scenario' = Follows("PATCH", task_id, task_update)
    /\ IF TaskPatchErrors(task_update) # {}
         THEN /\ resp' = Unprocessable
              /\ written' = NoBody
              /\ UNCHANGED <<fake_db, db_order>>
       ELSE IF task_id \notin DOMAIN fake_db
         THEN /\ resp' = NotFound
              /\ written' = NoBody
              /\ UNCHANGED <<fake_db, db_order>>
         ELSE LET existing_task == fake_db[task_id]
                  update_data == model_dump_exclude_unset(task_update)
                  updated_task_data ==
                      [model_copy(existing_task, update_data) EXCEPT !.updated_at = clock]
              IN /\ fake_db' = SetItem(fake_db, task_id, updated_task_data)
                 /\ db_order' = SetItemOrder(fake_db, db_order, task_id)
                 /\ resp' = Response(200, "", <<updated_task_data>>)
                 /\ written' = task_update
    /\ repeated' = (Again("PATCH", task_id, task_update) /\ resp'.status = 200)
    /\ UNCHANGED <<next_id, clock, app_up, issued, deleted>>
    /\ UNCHANGED <<loop, discarded, tests_next_id>>

delete_task(task_id) ==
    /\ app_up
    /\ req' = Request("DELETE", task_id)
    /\ scenario' = Follows("DELETE", task_id, NoBody)
    /\ repeated' = FALSE
    /\ written' = NoBody
    /\ IF task_id \notin DOMAIN fake_db
         THEN /\ resp' = NotFound
              /\ UNCHANGED <<fake_db, db_order, deleted>>
         ELSE /\ fake_db' = DelItem(fake_db, task_id)
              /\ db_order' = DelItemOrder(db_order, task_id)
              /\ resp' = Response(204, "", <<>>)
              /\ deleted' = deleted \cup {task_id}
    /\ UNCHANGED <<next_id, clock, app_up, issued>>
    /\ UNCHANGED <<loop, discarded, tests_next_id>>

\* The requests: ids from I, bodies from B, creates while next_id <= cap.
NextOver(I, B, cap) ==
    \/ Startup
    \/ Shutdown
    \/ Tick
    \/ ClockSetBack
    \/ root
    \/ get_all_tasks
    \/ \E k \in I : get_task(k)
    \/ \E b \in B : next_id <= cap /\ create_task(b)
    \/ \E k \in I, b \in B : update_task(k, b)
    \/ \E k \in I, b \in B : partial_update_task(k, b)
    \/ \E k \in I : delete_task(k)

\* Every request, with a few bodies.
Next == NextOver(Ids, FewBodies, MaxId)

Spec == Init /\ [][Next]_vars

\* Every body, on the first task alone: the one create is the first.
NextBodies == NextOver(FirstIds, Bodies, FirstId)

SpecBodies == Init /\ [][NextBodies]_vars

(* ------------------------ the tests' client fixture -------------------- *)

\* client_fixture, up to the yield: fake_db.clear(), the assignment of 1 to
\* the global next_id of the test module, and the startup of the
\* application that entering TestClient(app) runs.  The history of the last
\* request starts anew with the test.
client_fixture ==
    /\ ~app_up
    /\ fake_db' = EmptyDb
    /\ db_order' = <<>>
    /\ tests_next_id' = 1
    /\ app_up' = TRUE
    /\ req' = Request("fixture", 0)
    /\ written' = NoBody
    /\ resp' = Response(0, "", <<>>)
    /\ scenario' = Off
    /\ repeated' = FALSE
    /\ UNCHANGED <<next_id, clock, issued, deleted, discarded>>
    /\ UNCHANGED loop

\* The tests: each starts the application through the fixture, makes its
\* requests and leaves TestClient(app), which shuts the application down.
NextTests ==
    \/ client_fixture
    \/ Shutdown
    \/ root
    \/ get_all_tasks
    \/ \E k \in Ids : get_task(k)
    \/ \E b \in FewBodies : next_id <= MaxId /\ create_task(b)
    \/ \E k \in Ids, b \in FewBodies : update_task(k, b)
    \/ \E k \in Ids, b \in FewBodies : partial_update_task(k, b)
    \/ \E k \in Ids : delete_task(k)

SpecTests == Init /\ [][NextTests]_vars

(* ---------------------- requests served concurrently ------------------ *)

\* The handlers are coroutines (async def) that the event loop runs one at a
\* time: a coroutine keeps the loop from one statement to the next unless it
\* awaits there.  A coroutine is at the line of main.py it runs next.

\* variant: the loop may switch at every line
AwaitPointsEverywhere ==
    {"l92", "l93", "l116", "l118", "l127", "l151", "l153", "l157", "l174"}

\* the lines at which a handler awaits: no handler of main.py has an await
AwaitPoints == {}

NoTask == <<>>

\* the first line of the handler of op
FirstLine(op) ==
    IF op = "POST" THEN "l83"
    ELSE IF op = "PUT" THEN "l113"
    ELSE IF op = "PATCH" THEN "l148"
    ELSE "l172"

\* the body each concurrent request carries; each passes validation
BodyOf(op) ==
    IF op = "POST" THEN [title |-> Str("a", 1)]
    ELSE IF op = "PUT" THEN [title |-> Str("b", TitleMaxLength)]
    ELSE IF op = "PATCH" THEN [completed |-> Bool(TRUE)]
    ELSE NoBody

\* a coroutine: the request, the line it is at, its local variables
\* existing_task and new_task / updated_task_obj / updated_task_data, and the
\* status of its response once it has returned or raised
Coro(op, id, pc, existing_task, task, status) ==
    [op |-> op, id |-> id, pc |-> pc, existing_task |-> existing_task,
     task |-> task, status |-> status]

InFlight(op) == { c \in 1 .. MaxInFlight : coros[c].op = op }

\* A request arrives and passes validation; its handler is scheduled, in
\* the first slot that is free.
Accept(c, op, id) ==
    /\ app_up
    /\ running = 0
    /\ coros[c] = Idle
    /\ \A d \in 1 .. (c - 1) : coros[d] # Idle
    /\ op = "POST" => next_id + Cardinality(InFlight("POST")) <= MaxId
    /\ coros' = [coros EXCEPT ![c] = Coro(op, id, FirstLine(op), NoTask, NoTask, 0)]
    /\ UNCHANGED <<fake_db, db_order, next_id, clock, app_up, issued, deleted, running>>
    /\ UNCHANGED <<last, discarded, tests_next_id>>

\* the coroutine goes on to line pc
Goto(c, pc, existing_task, task) ==
    coros' = [coros EXCEPT ![c] = Coro(coros[c].op, coros[c].id, pc, existing_task, task, 0)]

\* the coroutine returns or raises
Done(c, status, task) ==
    coros' = [coros EXCEPT ![c] = Coro(coros[c].op, coros[c].id, "done", coros[c].existing_task, task, status)]

\* The event loop runs the next line of coroutine c.
Step(c) ==
    LET co == coros[c]
        absent == co.id \notin DOMAIN fake_db
    IN
    /\ co # Idle
    /\ co.pc # "done"
    /\ running \in {0, c}
    /\ \/ /\ co.pc = "l83"
          /\ Goto(c, "l92", NoTask,
                  TaskInDB(next_id, clock, clock, TaskCreate(BodyOf("POST")).title,
                           TaskCreate(BodyOf("POST")).description,
                           TaskCreate(BodyOf("POST")).completed))
          /\ UNCHANGED <<fake_db, db_order, next_id, issued, deleted>>
       \/ /\ co.pc = "l92"
          /\ fake_db' = SetItem(fake_db, co.task.id, co.task)
          /\ db_order' = SetItemOrder(fake_db, db_order, co.task.id)
          /\ Goto(c, "l93", NoTask, co.task)
          /\ UNCHANGED <<next_id, issued, deleted>>
       \/ /\ co.pc = "l93"
          /\ next_id' = Increment(next_id)
          /\ issued' = Append(issued, co.task.id)
          /\ Done(c, 201, co.task)
          /\ UNCHANGED <<fake_db, db_order, deleted>>
       \/ /\ co.pc \in {"l113", "l148", "l172"}
          /\ IF absent
               THEN Done(c, 404, NoTask)
               ELSE Goto(c, IF co.pc = "l113" THEN "l116"
                            ELSE IF co.pc = "l148" THEN "l151" ELSE "l174",
                         NoTask, NoTask)
          /\ UNCHANGED <<fake_db, db_order, next_id, issued, deleted>>
       \/ /\ co.pc \in {"l116", "l151"}
          /\ IF absent
               THEN Done(c, 500, NoTask)
               ELSE Goto(c, IF co.pc = "l116" THEN "l118" ELSE "l153", fake_db[co.id], NoTask)
          /\ UNCHANGED <<fake_db, db_order, next_id, issued, deleted>>
       \/ /\ co.pc = "l118"
          /\ Goto(c, "l127", co.existing_task,
                  TaskInDB(co.id, co.existing_task.created_at, clock,
                           TaskPut(BodyOf("PUT")).title,
                           TaskPut(BodyOf("PUT")).description,
                           TaskPut(BodyOf("PUT")).completed))
          /\ UNCHANGED <<fake_db, db_order, next_id, issued, deleted>>
       \/ /\ co.pc = "l153"
          /\ Goto(c, "l157", co.existing_task,
                  [model_copy(co.existing_task, model_dump_exclude_unset(BodyOf("PATCH")))
                      EXCEPT !.updated_at = clock])
          /\ UNCHANGED <<fake_db, db_order, next_id, issued, deleted>>
       \/ /\ co.pc \in {"l127", "l157"}
          /\ fake_db' = SetItem(fake_db, co.id, co.task)
          /\ db_order' = SetItemOrder(fake_db, db_order, co.id)
          /\ Done(c, 200, co.task)
          /\ UNCHANGED <<next_id, issued, deleted>>
       \/ /\ co.pc = "l174"
          /\ IF absent
               THEN /\ Done(c, 500, NoTask)
                    /\ UNCHANGED <<fake_db, db_order, deleted>>
               ELSE /\ fake_db' = DelItem(fake_db, co.id)
                    /\ db_order' = DelItemOrder(db_order, co.id)
                    /\ deleted' = deleted \cup {co.id}
                    /\ Done(c, 204, NoTask)
          /\ UNCHANGED <<next_id, issued>>
    /\ running' = IF coros'[c].pc = "done" \/ coros'[c].pc \in AwaitPoints THEN 0 ELSE c
    /\ UNCHANGED <<clock, app_up>>
    /\ UNCHANGED <<last, discarded, tests_next_id>>

\* The response of a coroutine that has returned or raised is sent.
Respond(c) ==
    /\ coros[c] # Idle
    /\ coros[c].pc = "done"
    /\ running = 0
    /\ coros' = [coros EXCEPT ![c] = Idle]
    /\ UNCHANGED <<fake_db, db_order, next_id, clock, app_up, issued, deleted, running>>
    /\ UNCHANGED <<last, discarded, tests_next_id>>

NextLoop ==
    \/ Startup
    \/ \E c \in 1 .. MaxInFlight :
          \/ Accept(c, "POST", 0)
          \/ \E k \in FirstIds, op \in {"PUT", "PATCH", "DELETE"} : Accept(c, op, k)
    \/ \E c \in 1 .. MaxInFlight : Step(c)
    \/ \E c \in 1 .. MaxInFlight : Respond(c)

SpecLoop == Init /\ [][NextLoop]_vars

(* ------------------------------ claims --------------------------------- *)

\* A step that serves a request: every other action moves the clock or the
\* lifespan.
RequestStep == clock' = clock /\ app_up' = app_up

WithId == {"GET", "PUT", "PATCH", "DELETE"}

\* the two failures: 404 with the fixed message, 422
TaskNotFound(r) == r.status = 404 /\ r.detail = "Task not found" /\ r.body = <<>>

Invalid(r) == r.status = 422 /\ r.body = <<>>

StoreUnchanged == fake_db' = fake_db /\ db_order' = db_order /\ next_id' = next_id

\* a body that violates the schema of POST and PUT (nullable FALSE) or of
\* PATCH (nullable TRUE): a title of the wrong length, a value of the wrong
\* type, a missing title
TitleOutOfBounds(b) ==
    "title" \in DOMAIN b /\ b["title"].t = "str"
        /\ (b["title"].len < 1 \/ b["title"].len > 100)

WrongType(b, nullable) ==
    \E f \in DOMAIN b \cap Fields :
        /\ b[f].t # (IF f = "completed" THEN "bool" ELSE "str")
        /\ ~(b[f].t = "null" /\ (nullable \/ f = "description"))

Violates(op, b) ==
    \/ op # "PATCH" /\ "title" \notin DOMAIN b
    \/ TitleOutOfBounds(b)
    \/ WrongType(b, op = "PATCH")

\* C1: every successful create returns an id strictly greater than the id of
\* every earlier successful create, so no id is returned twice and none is
\* returned again after its task was deleted.
C1_IdsStrictlyIncrease ==
    /\ \A i, j \in 1 .. Len(issued) : i < j => issued[i] < issued[j]
    /\ (req.op = "POST" /\ resp.status = 201) =>
          /\ resp.body[1].id = issued[Len(issued)]
          /\ \A i \in 1 .. (Len(issued) - 1) : resp.body[1].id > issued[i]

\* a second create has just answered, after the task of the first was deleted
C1_Witness ==
    /\ req.op = "POST" /\ resp.status = 201
    /\ Len(issued) = 2
    /\ issued[1] \in deleted

\* C2 as stated: once DELETE on an id has answered 204, every later GET, PUT,
\* PATCH or DELETE on that id answers 404 "Task not found".
C2_DeletedIsNotFound ==
    [][(RequestStep /\ req'.op \in WithId /\ req'.id \in deleted) => TaskNotFound(resp')]_vars

\* C2 as amended: once DELETE on an id has answered 204, no later request on
\* that id succeeds: GET and DELETE answer 404 "Task not found", PUT and
\* PATCH answer 422 when their body violates the schema and 404 "Task not
\* found" otherwise.
C2_DeletedIsNotFoundOrInvalid ==
    [][/\ (RequestStep /\ req'.op \in WithId /\ req'.id \in deleted) =>
             \/ TaskNotFound(resp')
             \/ req'.op \in {"PUT", "PATCH"} /\ Invalid(resp')
       /\ \A k \in deleted, b \in FewBodies :
             /\ (update_task(k, b) /\ ~Violates("PUT", b)) => TaskNotFound(resp')
             /\ (partial_update_task(k, b) /\ ~Violates("PATCH", b)) => TaskNotFound(resp')
      ]_vars

\* a PUT on a deleted id has answered 404 after a further create
C2_Witness ==
    /\ req.op = "PUT" /\ req.id \in deleted
    /\ TaskNotFound(resp)
    /\ Len(issued) = 2

\* C3: a successful PATCH leaves every field of title/description/completed
\* that its body omits as it was, whatever subset of the fields the body
\* carries.
C3_PatchKeepsOmitted ==
    [][(RequestStep /\ req'.op = "PATCH" /\ resp'.status = 200) =>
          /\ req'.id \in DOMAIN fake_db
          /\ req'.id \in DOMAIN fake_db'
          /\ \A f \in Fields \ DOMAIN written' :
                /\ fake_db'[req'.id][f] = fake_db[req'.id][f]
                /\ resp'.body[1][f] = fake_db[req'.id][f]
      ]_vars

\* a PATCH that carries completed alone has answered 200 for a task whose
\* title and description are not the defaults
C3_Witness ==
    /\ req.op = "PATCH" /\ resp.status = 200
    /\ DOMAIN written = {"completed"}
    /\ resp.body[1].title = Str("b", 100)
    /\ resp.body[1].description = Str("d", 1)

\* the fields a body asks for: what it carries, absent for an omitted
\* description, false for an omitted completed
Asked(body) ==
    [ title       |-> body["title"],
      description |-> IF "description" \in DOMAIN body THEN body["description"] ELSE Null,
      completed   |-> IF "completed" \in DOMAIN body THEN body["completed"] ELSE Bool(FALSE) ]

SameFields(t, e) ==
    t.title = e.title /\ t.description = e.description /\ t.completed = e.completed

C5_UpdatedAtAdvances ==
    [][(RequestStep /\ req'.op \in {"PUT", "PATCH"} /\ resp'.status = 200) =>
          fake_db'[req'.id].updated_at > fake_db[req'.id].updated_at
      ]_vars

\* C6: a successful create stores and returns a task with the fields the
\* request asks for and created_at = updated_at, and a GET of the returned id
\* that follows returns that id with these fields and created_at =
\* updated_at.
C6_CreateRoundTrip ==
    [][/\ (req'.op = "POST" /\ resp'.status = 201) =>
             /\ Len(resp'.body) = 1
             /\ resp'.body[1].id \in DOMAIN fake_db'
             /\ fake_db'[resp'.body[1].id] = resp'.body[1]
             /\ SameFields(resp'.body[1], Asked(written'))
             /\ resp'.body[1].created_at = resp'.body[1].updated_at
       /\ (req.op = "POST" /\ resp.status = 201 /\ req'.op = "GET"
             /\ req'.id = resp.body[1].id) =>
             /\ resp'.status = 200
             /\ resp'.body[1].id = resp.body[1].id
             /\ SameFields(resp'.body[1], Asked(written))
             /\ resp'.body[1].created_at = resp'.body[1].updated_at
      ]_vars

\* a create that carries title and completed has answered 201
C6_Witness ==
    /\ req.op = "POST" /\ resp.status = 201
    /\ DOMAIN written = {"title", "completed"}
    /\ resp.body[1].completed = Bool(TRUE)

\* C7 as stated: GET, PUT, PATCH and DELETE on an id absent from the store
\* answer 404 "Task not found" and leave the store and the counter alone.
C7_AbsentIsNotFound ==
    [][(RequestStep /\ req'.op \in WithId /\ req'.id \notin DOMAIN fake_db) =>
          TaskNotFound(resp') /\ StoreUnchanged
      ]_vars

\* C7 as amended: on an id absent from the store GET and DELETE answer 404
\* "Task not found", PUT and PATCH answer 422 when their body violates the
\* schema and 404 "Task not found" otherwise; each leaves the store and the
\* counter alone, so the id is still absent for the next request.
C7_AbsentIsNotFoundOrInvalid ==
    [][/\ (RequestStep /\ req'.op \in WithId /\ req'.id \notin DOMAIN fake_db) =>
             /\ \/ TaskNotFound(resp')
                \/ req'.op \in {"PUT", "PATCH"} /\ Invalid(resp')
             /\ StoreUnchanged
             /\ req'.id \notin DOMAIN fake_db'
       /\ \A k \in Ids \ DOMAIN fake_db, b \in FewBodies :
             /\ (update_task(k, b) /\ ~Violates("PUT", b)) => TaskNotFound(resp')
             /\ (partial_update_task(k, b) /\ ~Violates("PATCH", b)) => TaskNotFound(resp')
      ]_vars

\* a DELETE on an id that never was in the store has answered 404 while
\* another task is stored
C7_Witness ==
    /\ req.op = "DELETE" /\ TaskNotFound(resp)
    /\ req.id >= next_id
    /\ fake_db # EmptyDb

Rejected == Invalid(resp') /\ StoreUnchanged

\* C8: in every state, serving a POST, PUT or PATCH whose body violates the
\* schema can only answer 422 and leave the store and the counter as they
\* are.
C8_RejectedBeforeStore ==
    \A b \in Bodies :
        /\ Violates("POST", b) => ~ENABLED (create_task(b) /\ ~Rejected)
        /\ Violates("PUT", b) =>
              \A k \in FirstIds : ~ENABLED (update_task(k, b) /\ ~Rejected)
        /\ Violates("PATCH", b) =>
              \A k \in FirstIds : ~ENABLED (partial_update_task(k, b) /\ ~Rejected)

\* a PATCH on a stored task has answered 422
C8_Witness ==
    /\ req.op = "PATCH" /\ resp.status = 422
    /\ req.id \in DOMAIN fake_db

\* C9: no task in the store has a description longer than 1000.
C9_DescriptionBounded ==
    \A k \in DOMAIN fake_db :
        fake_db[k].description.t = "str" => fake_db[k].description.len <= 1000

\* C10: every stored task has a title that is a text of length 1 to 100 and a
\* completed that is a boolean.
C10_TitleAndCompletedPresent ==
    \A k \in DOMAIN fake_db :
        /\ fake_db[k].title.t = "str"
        /\ fake_db[k].title.len >= 1 /\ fake_db[k].title.len <= 100
        /\ fake_db[k].completed.t = "bool"

\* C11: every stored task has updated_at >= created_at.
C11_UpdatedNotBeforeCreated ==
    \A k \in DOMAIN fake_db : fake_db[k].updated_at >= fake_db[k].created_at

Success(r) == r.status \in {200, 201} /\ Len(r.body) = 1

\* the entries of the store other than k are what they were
OthersUnchanged(k) ==
    \A j \in DOMAIN fake_db \ {k} : j \in DOMAIN fake_db' /\ fake_db'[j] = fake_db[j]

\* C12: the store holds one task per id, the task under key k has id k, and
\* a successful create, PUT or PATCH stores the task it returns under the id
\* of that task and leaves the entry of every other task as it was; the
\* create stores under a key that was free.
C12_OneTaskPerId ==
    [][/\ \A k \in DOMAIN fake_db' : fake_db'[k].id = k
       /\ Len(db_order') = Cardinality(DOMAIN fake_db')
       /\ { db_order'[i] : i \in 1 .. Len(db_order') } = DOMAIN fake_db'
       /\ (RequestStep /\ req'.op \in {"POST", "PUT", "PATCH"} /\ Success(resp')) =>
             /\ resp'.body[1].id \in DOMAIN fake_db'
             /\ fake_db'[resp'.body[1].id] = resp'.body[1]
             /\ req'.op # "POST" => resp'.body[1].id = req'.id
             /\ req'.op = "POST" => resp'.body[1].id \notin DOMAIN fake_db
             /\ DOMAIN fake_db' = DOMAIN fake_db \cup {resp'.body[1].id}
             /\ OthersUnchanged(resp'.body[1].id)
      ]_vars

\* a PATCH whose body carries the id of the other stored task has answered
\* 200
C12_Witness ==
    /\ req.op = "PATCH" /\ resp.status = 200
    /\ "id" \in DOMAIN written
    /\ written["id"] # req.id
    /\ written["id"] \in DOMAIN fake_db

\* C13: while a task is in the store its id and its created_at stay what they
\* are, so that after any successful PUTs and PATCHes they are the ones the
\* create assigned; the response of a successful PUT or PATCH carries them.
C13_IdAndCreatedAtKept ==
    [][/\ \A k \in DOMAIN fake_db \cap DOMAIN fake_db' :
             /\ fake_db'[k].id = fake_db[k].id
             /\ fake_db'[k].created_at = fake_db[k].created_at
       /\ (RequestStep /\ req'.op \in {"PUT", "PATCH"} /\ resp'.status = 200) =>
             /\ req'.id \in DOMAIN fake_db
             /\ resp'.body[1].id = fake_db[req'.id].id
             /\ resp'.body[1].created_at = fake_db[req'.id].created_at
      ]_vars

\* a PUT has answered 200 at another time than the task was created
C13_Witness ==
    /\ req.op = "PUT" /\ resp.status = 200
    /\ fake_db[req.id].updated_at # fake_db[req.id].created_at

\* the store and the counter are what they were, but for the updated_at of
\* task k
SameButUpdatedAt(k) ==
    /\ k \in DOMAIN fake_db
    /\ fake_db' = [fake_db EXCEPT ![k].updated_at = fake_db'[k].updated_at]
    /\ db_order' = db_order
    /\ next_id' = next_id

\* C14 as stated: a successful PUT or PATCH that repeats the request served
\* just before it leaves the store as that request left it.
C14_SecondLeavesStore ==
    [][(RequestStep /\ repeated') => (StoreUnchanged /\ resp'.body = resp.body)]_vars

\* C14 as amended: a successful PUT or PATCH that repeats the request served
\* just before it leaves the store as that request left it but for the
\* updated_at of the task, which is the time of the repetition; nothing
\* else of the task, no other task and not the counter differs, and the
\* store is the same when the clock reads the same.
C14_SecondLeavesAllButUpdatedAt ==
    [][(RequestStep /\ repeated') =>
          /\ SameButUpdatedAt(req'.id)
          /\ fake_db'[req'.id].updated_at = clock
          /\ resp'.body = <<fake_db'[req'.id]>>
          /\ clock = fake_db[req'.id].updated_at => (StoreUnchanged /\ resp'.body = resp.body)
      ]_vars

\* a PATCH that carries a title has answered 200 twice in a row, at two
\* different times
C14_Witness ==
    /\ repeated
    /\ req.op = "PATCH"
    /\ "title" \in DOMAIN written
    /\ fake_db[req.id].updated_at # fake_db[req.id].created_at

\* C15: GET /tasks can always be served and answers 200 with the tasks of
\* the store as they are stored, each once and nothing else, hence the empty
\* list for the empty store; the tasks listed are tasks created and not
\* deleted since.
C15_ListReturnsStore ==
    /\ [](app_up => ENABLED get_all_tasks)
    /\ [][(RequestStep /\ req'.op = "GET /tasks") =>
             /\ resp'.status = 200
             /\ StoreUnchanged
             /\ Len(resp'.body) = Cardinality(DOMAIN fake_db)
             /\ \A k \in DOMAIN fake_db :
                   Cardinality({ i \in 1 .. Len(resp'.body) : resp'.body[i] = fake_db[k] }) = 1
             /\ \A i \in 1 .. Len(resp'.body) :
                   /\ resp'.body[i].id \in DOMAIN fake_db
                   /\ resp'.body[i] = fake_db[resp'.body[i].id]
                   /\ \E j \in 1 .. Len(issued) : issued[j] = resp'.body[i].id
                   /\ resp'.body[i].id \notin deleted
             /\ fake_db = EmptyDb => resp'.body = <<>>
         ]_vars

\* GET /tasks has answered with two tasks, the first of them updated since
\* its creation
C15_Witness ==
    /\ req.op = "GET /tasks" /\ resp.status = 200
    /\ Len(resp.body) = 2
    /\ resp.body[1].updated_at # resp.body[1].created_at

\* C16: served in this order from initialisation on, POST {title: "a"}
\* answers 201 with id 1, completed false and no description, and stores
\* that task; PATCH {completed: true} of id 1 answers 200 with the title
\* still "a" and completed true; DELETE of id 1 answers 204; GET of id 1
\* answers 404 "Task not found".  The first id a create assigns is 1.
C16_Scenario ==
    /\ scenario = 1 =>
          /\ req = Request("POST", 0)
          /\ resp.status = 201 /\ Len(resp.body) = 1
          /\ resp.body[1].id = 1
          /\ resp.body[1].title = Str("a", 1)
          /\ resp.body[1].completed = Bool(FALSE)
          /\ resp.body[1].description = Null
          /\ DOMAIN fake_db = {1} /\ fake_db[1] = resp.body[1]
    /\ scenario = 2 =>
          /\ req = Request("PATCH", 1)
          /\ resp.status = 200 /\ Len(resp.body) = 1
          /\ resp.body[1].id = 1
          /\ resp.body[1].title = Str("a", 1)
          /\ resp.body[1].completed = Bool(TRUE)
    /\ scenario = 3 =>
          /\ req = Request("DELETE", 1)
          /\ resp.status = 204 /\ resp.body = <<>>
    /\ scenario = 4 =>
          /\ req = Request("GET", 1)
          /\ TaskNotFound(resp)
    /\ Len(issued) >= 1 => issued[1] = 1

\* the four requests of the scenario have been served
C16_Witness == scenario = 4

\* C18: a successful PATCH stores every field its body carries as the body
\* gives it, so an explicit null description leaves the task without
\* description and an explicit completed false leaves it not completed,
\* while a field the body omits stays what it was, default or not.
C18_OmittedIsNotNull ==
    [][(RequestStep /\ req'.op = "PATCH" /\ resp'.status = 200) =>
          /\ req'.id \in DOMAIN fake_db /\ req'.id \in DOMAIN fake_db'
          /\ \A f \in {"description", "completed"} :
                IF f \in DOMAIN written'
                  THEN /\ fake_db'[req'.id][f] = written'[f]
                       /\ resp'.body[1][f] = written'[f]
                  ELSE /\ fake_db'[req'.id][f] = fake_db[req'.id][f]
                       /\ resp'.body[1][f] = fake_db[req'.id][f]
          /\ ("description" \in DOMAIN written' /\ written'["description"] = Null) =>
                fake_db'[req'.id].description = Null
          /\ ("completed" \in DOMAIN written' /\ written'["completed"] = Bool(FALSE)) =>
                fake_db'[req'.id].completed = Bool(FALSE)
      ]_vars

\* a PATCH that carries a null description and no completed has answered
\* 200 for a task that is completed
C18_Witness ==
    /\ req.op = "PATCH" /\ resp.status = 200
    /\ DOMAIN written = {"description"}
    /\ written["description"] = Null
    /\ fake_db[req.id].description = Null
    /\ fake_db[req.id].completed = Bool(TRUE)

\* a task as the response model declares it
IsTask(t) ==
    /\ t.id \in Nat /\ t.id >= 1
    /\ t.title.t = "str" /\ t.title.len >= 1 /\ t.title.len <= 100
    /\ t.description.t \in {"null", "str"}
    /\ t.completed.t = "bool"
    /\ t.created_at \in Nat /\ t.updated_at \in Nat

\* C19: every request ends in its success response, in 404 or in 422; a
\* GET, PUT, PATCH or DELETE of an id in the store that is not rejected with
\* 422 succeeds, with 204 for DELETE and else with 200 and one task that
\* satisfies the schema of a task; GET /tasks answers 200 with such tasks.
C19_SuccessOrNotFoundOrInvalid ==
    [][RequestStep =>
          /\ resp'.status \in {200, 201, 204, 404, 422}
          /\ (req'.op \in WithId /\ req'.id \in DOMAIN fake_db /\ ~Invalid(resp')) =>
                IF req'.op = "DELETE"
                  THEN resp'.status = 204 /\ resp'.body = <<>>
                  ELSE resp'.status = 200 /\ Len(resp'.body) = 1 /\ IsTask(resp'.body[1])
          /\ req'.op = "GET /tasks" =>
                /\ resp'.status = 200
                /\ \A i \in 1 .. Len(resp'.body) : IsTask(resp'.body[i])
      ]_vars

\* the keys other than k are listed in the order they were
OrderOfOthersUnchanged(k) ==
    SelectSeq(db_order', LAMBDA x : x # k) = SelectSeq(db_order, LAMBDA x : x # k)

\* C20: a GET of any kind leaves the store and the counter as they are; a
\* successful PUT, PATCH or DELETE of id k leaves the counter and every
\* entry other than that of k as they are, PUT and PATCH keeping the set of
\* ids and DELETE removing k alone; a successful create adds one entry
\* under an id that was free and leaves every other entry as it is.
C20_OnlyTheTargetChanges ==
    [][RequestStep =>
          /\ req'.op \in {"GET /", "GET /tasks", "GET"} => StoreUnchanged
          /\ (req'.op \in {"PUT", "PATCH"} /\ resp'.status = 200) =>
                /\ OthersUnchanged(req'.id) /\ OrderOfOthersUnchanged(req'.id)
                /\ DOMAIN fake_db' = DOMAIN fake_db
                /\ next_id' = next_id
          /\ (req'.op = "DELETE" /\ resp'.status = 204) =>
                /\ OthersUnchanged(req'.id) /\ OrderOfOthersUnchanged(req'.id)
                /\ DOMAIN fake_db' = DOMAIN fake_db \ {req'.id}
                /\ next_id' = next_id
          /\ (req'.op = "POST" /\ resp'.status = 201) =>
                /\ resp'.body[1].id \notin DOMAIN fake_db
                /\ DOMAIN fake_db' = DOMAIN fake_db \cup {resp'.body[1].id}
                /\ Cardinality(DOMAIN fake_db') = Cardinality(DOMAIN fake_db) + 1
                /\ OthersUnchanged(resp'.body[1].id)
                /\ OrderOfOthersUnchanged(resp'.body[1].id)
      ]_vars

\* a PUT of the second task has answered 200 while the first is stored
C20_Witness ==
    /\ req.op = "PUT" /\ resp.status = 200
    /\ req.id # FirstId
    /\ FirstId \in DOMAIN fake_db

Slots == 1 .. MaxInFlight

\* coroutine c is past the existence check of its handler and has not
\* returned
PastCheck(c) ==
    coros[c] # Idle
        /\ coros[c].pc \in {"l116", "l118", "l127", "l151", "l153", "l157", "l174"}

\* coroutine c has read the counter and has not incremented it
PastCounterRead(c) == coros[c] # Idle /\ coros[c].pc \in {"l92", "l93"}

\* no handler sees another request's mutation between its check, or its
\* read of the counter, and its write
NoInterference ==
    /\ \A c \in Slots : PastCheck(c) =>
          /\ coros[c].id \in DOMAIN fake_db
          /\ coros[c].existing_task # NoTask =>
                fake_db[coros[c].id] = coros[c].existing_task
    /\ \A c \in Slots : PastCounterRead(c) =>
          /\ coros[c].task.id = next_id
          /\ IF coros[c].pc = "l92"
               THEN coros[c].task.id \notin DOMAIN fake_db
               ELSE fake_db[coros[c].task.id] = coros[c].task
    /\ \A c, d \in Slots :
          (c # d /\ coros[c].op = "POST" /\ coros[d].op = "POST"
             /\ coros[c].task # NoTask /\ coros[d].task # NoTask) =>
                coros[c].task.id # coros[d].task.id
    /\ \A i, j \in 1 .. Len(issued) : i # j => issued[i] # issued[j]
    /\ deleted \cap DOMAIN fake_db = {}
    /\ \A c \in Slots :
          (coros[c] # Idle /\ coros[c].pc = "done") =>
             coros[c].status \in {200, 201, 204, 404}

\* the write of a PATCH that carries completed alone keeps the title and the
\* description the store holds at the write
PatchWritesCurrent ==
    \A c \in Slots :
        (coros[c] # Idle /\ coros[c].pc = "l157" /\ coros'[c].pc = "done") =>
           /\ coros[c].id \in DOMAIN fake_db
           /\ fake_db'[coros[c].id].title = fake_db[coros[c].id].title
           /\ fake_db'[coros[c].id].description = fake_db[coros[c].id].description
           /\ fake_db'[coros[c].id].completed = Bool(TRUE)

\* C17: with requests in flight together, under every interleaving the
\* loop allows: between the existence check of a PUT, PATCH or DELETE and
\* its write the entry stays in the store and stays what the handler read;
\* between a create's read of the counter and its increment the counter
\* stays what it read and the id stays free for it; hence no two creates
\* get the same id, no deleted task is in the store again, no handler fails
\* on an entry that vanished, and a PATCH writes the fields it does not
\* carry as they are in the store when it writes.
C17_HandlersAtomic == []NoInterference /\ [][PatchWritesCurrent]_vars

\* a DELETE and a PATCH of the same task are in flight together; the
\* DELETE has returned 204 and the PATCH has raised 404
C17_Witness ==
    /\ coros[1] # Idle /\ coros[2] # Idle
    /\ coros[1].op = "PATCH" /\ coros[2].op = "DELETE"
    /\ coros[1].id = coros[2].id
    /\ coros[2].status = 204
    /\ coros[1].status = 404

\* C21: the counter is at least 1, greater than every id in the store and
\* than every id a create ever returned, and 1 more than the number of
\* successful creates; a successful create increases it by exactly 1 and no
\* other request, nor the startup or the shutdown, changes it.
C21_CounterAboveEveryId ==
    /\ [](/\ next_id >= 1
          /\ \A k \in DOMAIN fake_db : k < next_id
          /\ \A i \in 1 .. Len(issued) : issued[i] < next_id
          /\ \A k \in deleted : k < next_id
          /\ next_id = 1 + Len(issued))
    /\ [][IF RequestStep /\ req'.op = "POST" /\ resp'.status = 201
            THEN next_id' = next_id + 1 /\ Len(issued') = Len(issued) + 1
            ELSE next_id' = next_id /\ issued' = issued
         ]_vars

\* two creates have succeeded and both tasks are deleted: the counter is 3
\* and the store is empty
C21_Witness ==
    /\ app_up
    /\ Len(issued) = 2
    /\ DOMAIN fake_db = {}
    /\ deleted = {issued[1], issued[2]}
    /\ next_id = 3

\* C22: the shutdown leaves the store empty and the counter as it is; from
\* then on no id a create returned before the shutdown is in the store,
\* every GET and DELETE of such an id, and every PUT and PATCH of it that
\* is not rejected with 422, answers 404 "Task not found", and every create
\* returns an id greater than all of them.
C22_ShutdownKeepsCounter ==
    /\ [](/\ discarded \cap DOMAIN fake_db = {}
          /\ \A k \in discarded : k < next_id)
    /\ [][/\ (app_up /\ ~app_up') => (fake_db' = EmptyDb /\ next_id' = next_id)
          /\ (RequestStep /\ req'.op = "POST" /\ resp'.status = 201) =>
                \A k \in discarded : resp'.body[1].id > k
          /\ (RequestStep /\ req'.op \in WithId /\ req'.id \in discarded) =>
                \/ TaskNotFound(resp')
                \/ req'.op \in {"PUT", "PATCH"} /\ Invalid(resp')
          /\ \A k \in discarded :
                /\ get_task(k) => TaskNotFound(resp')
                /\ delete_task(k) => TaskNotFound(resp')
                /\ \A b \in FewBodies :
                      /\ (update_task(k, b) /\ ~Violates("PUT", b)) => TaskNotFound(resp')
                      /\ (partial_update_task(k, b) /\ ~Violates("PATCH", b)) =>
                            TaskNotFound(resp')
         ]_vars

\* after a shutdown and a restart a task is created, and a GET of the id
\* used before the shutdown has answered 404
C22_Witness ==
    /\ app_up
    /\ req.op = "GET" /\ req.id \in discarded
    /\ TaskNotFound(resp)
    /\ \E k \in DOMAIN fake_db : \A j \in discarded : k > j

\* C23: the fixture leaves the store empty and the counter of the
\* application at 1, so the first create of every test returns id 1.
C23_FixtureResetsCounter ==
    /\ [](req.op = "fixture" => (fake_db = EmptyDb /\ next_id = 1))
    /\ [][(req.op = "fixture" /\ req'.op = "POST" /\ resp'.status = 201) =>
             resp'.body[1].id = 1
         ]_vars

====
